---- MODULE Spec2Model ----
(***************************************************************************)
(* A model of imbalanced-DL-sampling:                                      *)
(*   - the long-tailed SVHN dataset builder M2M_SVHN_LT                    *)
(*     (dataset/m2m_imbalance_svhn.py),                                    *)
(*   - the index builder get_imbalanced_data of the same class,            *)
(*   - get_criterion of ERMTrainer, LDAMDRWTrainer and MixupTrainer,       *)
(*   - train_one_epoch of the three trainers.                              *)
(* Each part has its own specification (SpecData, SpecIdx, SpecCrit,       *)
(* SpecTrain); the variables of the other parts stay at their idle values. *)
(***************************************************************************)
EXTENDS Integers, Sequences, FiniteSets, TLC

VARIABLES
    \* ---- M2M_SVHN_LT (dataset builder) ----
    d_pc,               \* position inside __init__
    d_err,              \* the exception __init__ ended with ("none" if none)
    data,               \* self.data: the rows, as a sequence of blocks [cls, n]
    labels,             \* self.labels: a sequence of runs [cls, n]
    num_per_cls_dict,   \* self.num_per_cls_dict: a function class id -> count
    img_num_list,       \* self.img_num_list
    new_classes,        \* the class order change_order_class established
    idx_len,            \* len(idx) per class as gen_imbalanced_data saw it
    imb_type,           \* argument imb_type
    imb_root,           \* argument imb_factor, given as <<a, b>>: (a/b)^9
    is_imbalance_data,  \* argument is_imbalance_data
    \* ---- get_imbalanced_data (index builder) ----
    g_pc,                   \* "call" before the call, "done" after it
    g_labels,               \* the label of dataset[i], i = 0 .. len-1
    target_counts,          \* the caller's num_sample_per_class list
    num_sample_per_class,   \* the function's own copy of that list
    selected_list,          \* the returned list
    \* ---- get_criterion of the three trainers ----
    trainer,        \* the trainer class, named by the strategy it implements
    strategy,       \* self.strategy
    cfg_epochs,     \* self.cfg.epochs
    epoch,          \* self.epoch
    cls_num_list,   \* self.cls_num_list
    criterion,      \* self.criterion
    c_idx,          \* the local idx of get_criterion (-1: not computed)
    c_pc,           \* "call" before the call, then "returned" or "raised"
    c_err,          \* the exception get_criterion raised ("none" if none)
    \* ---- train_one_epoch of the three trainers ----
    t_pc,           \* position inside train_one_epoch
    t_err,          \* the exception train_one_epoch ended with
    n_batches,      \* len(self.train_loader)
    print_freq,     \* self.cfg.print_freq
    batch_i,        \* i, the batch index of the for loop
    meter_n,        \* how often losses / top1 / top5 were updated
    log_training,   \* self.log_training: batch indices of the lines written
    log_flushed,    \* how many of those lines were flushed
    wandb_log,      \* the calls of wandb.log
    trace           \* the steps taken, in order

dataVars == <<d_pc, d_err, data, labels, num_per_cls_dict, img_num_list,
              new_classes, idx_len, imb_type, imb_root, is_imbalance_data>>

idxVars == <<g_pc, g_labels, target_counts, num_sample_per_class,
             selected_list>>

critVars == <<trainer, strategy, cfg_epochs, epoch, cls_num_list, criterion,
              c_idx, c_pc, c_err>>

trainVars == <<t_pc, t_err, n_batches, print_freq, batch_i, meter_n, log_training,
               log_flushed, wandb_log, trace>>

vars == <<dataVars, idxVars, critVars, trainVars>>

\* ------------------------------------------------------------------------
\* Bounds of the model and constants of the program
\* ------------------------------------------------------------------------

\* Class ids 0..NumCls-1 may occur in the source dataset.
NumCls == 3

\* The numbers of samples a class of the source dataset may hold.
AvailChoices == {0, 2, 100, 1000}

\* imb_factor values, each given by its ninth root a/b (imb_factor = (a/b)^9):
\* 0, 1e-9, 2^-9 and 1. For these the float expressions of
\* get_img_num_per_cls give the same integers as the exact quotients below.
RootChoices == {<<0, 1>>, <<1, 10>>, <<1, 2>>, <<1, 1>>}

ImbTypes == {"exp", "step", "none"}

\* get_imbalanced_data: the longest dataset, the most classes a target list
\* names, and the largest target count.
MaxLen == 4

MaxTargets == 2

MaxCount == 2

\* get_criterion: the length of cls_num_list, the class counts in it and the
\* values of cfg.epochs (below 320, the special case 300, above 320).
LenCls == 2

ClsCountChoices == {0, 1, 2}

EpochsChoices == {10, 300, 330}

Trainers == {"ERM", "LDAM_DRW", "Mixup_DRW"}

\* train_one_epoch: the most batches of an epoch and the largest print_freq.
MaxBatches == 3

MaxPrintFreq == 2

cls_num == 10

img_max == 1000

\* ------------------------------------------------------------------------
\* Helpers: lists held as runs, numpy's unique / where / slicing
\* ------------------------------------------------------------------------

Min(a, b) == IF a <= b THEN a ELSE b

RECURSIVE Pow(_, _)
Pow(a, n) == IF n = 0 THEN 1 ELSE a * Pow(a, n - 1)

\* len() of a list held as runs: the sum of the run lengths.
RECURSIVE RunLen(_)
RunLen(runs) ==
    IF runs = <<>> THEN 0 ELSE Head(runs).n + RunLen(Tail(runs))

\* len(np.where(targets_np == c)[0]): how many entries carry label c.
RECURSIVE CountOf(_, _)
CountOf(runs, c) ==
    IF runs = <<>> THEN 0
    ELSE (IF Head(runs).cls = c THEN Head(runs).n ELSE 0)
         + CountOf(Tail(runs), c)

\* list.extend([c] * n) and new_data.append(block of n rows): n copies of c.
Extend(runs, c, n) ==
    IF n = 0 THEN runs ELSE Append(runs, [cls |-> c, n |-> n])

\* An ascending sequence of the members of a finite set of integers.
RECURSIVE SortedSeq(_)
SortedSeq(S) ==
    IF S = {} THEN <<>>
    ELSE LET m == CHOOSE x \in S : \A y \in S : x <= y
         IN  <<m>> \o SortedSeq(S \ {m})

\* np.unique(targets_np): the distinct labels, ascending.
Unique(runs) ==
    SortedSeq({runs[k].cls : k \in {j \in DOMAIN runs : runs[j].n > 0}})

\* len(idx[:n]) for a non-negative n: slicing stops at the end of idx.
SliceLen(len, n) == Min(len, n)

\* The position of class c in a sequence of distinct classes.
PosOf(seq, c) == CHOOSE p \in DOMAIN seq : seq[p] = c

\* ------------------------------------------------------------------------
\* M2M_SVHN_LT
\* ------------------------------------------------------------------------

\* The source dataset as torchvision loaded it: one row per label.
SourceRuns(avail) ==
    LET RECURSIVE Build(_)
        Build(c) == IF c = NumCls THEN <<>>
                    ELSE Extend(<<>>, c, avail[c]) \o Build(c + 1)
    IN  Build(0)

IdleData ==
    /\ d_pc = "idle"
    /\ d_err = "none"
    /\ data = <<>>
    /\ labels = <<>>
    /\ num_per_cls_dict = <<>>
    /\ img_num_list = <<>>
    /\ new_classes = <<>>
    /\ idx_len = <<>>
    /\ imb_type = "none"
    /\ imb_root = <<1, 1>>
    /\ is_imbalance_data = FALSE

InitData ==
    /\ d_pc = "change_order_class"
    /\ d_err = "none"
    /\ \E avail \in [0 .. NumCls - 1 -> AvailChoices] :
          /\ labels = SourceRuns(avail)
          /\ data = SourceRuns(avail)
    /\ num_per_cls_dict = <<>>
    /\ img_num_list = <<>>
    /\ new_classes = <<>>
    /\ idx_len = <<>>
    /\ imb_type \in ImbTypes
    /\ imb_root \in RootChoices
    /\ is_imbalance_data \in BOOLEAN

\* The builder without its final assert.
AssertSkipped(nd, nt) == TRUE

\* assert new_data.shape[0] == len(new_targets)
LengthsMatch(nd, nt) == RunLen(nd) = RunLen(nt)

\* The blocks / runs that a loop over zip(classes, counts) builds.
RECURSIVE Rows(_, _, _)
Rows(classes, counts, lab) ==
    IF classes = <<>> \/ counts = <<>> THEN <<>>
    ELSE Extend(<<>>, Head(classes),
                SliceLen(CountOf(lab, Head(classes)), Head(counts)))
         \o Rows(Tail(classes), Tail(counts), lab)

RECURSIVE Targets(_, _)
Targets(classes, counts) ==
    IF classes = <<>> \/ counts = <<>> THEN <<>>
    ELSE Extend(<<>>, Head(classes), Head(counts))
         \o Targets(Tail(classes), Tail(counts))

\* The dict the loop fills: class id -> the count zipped with it.
Zipped(classes, counts) ==
    [c \in {classes[p] : p \in 1 .. Min(Len(classes), Len(counts))} |->
        counts[PosOf(classes, c)]]

change_order_class ==
    /\ d_pc = "change_order_class"
    /\ LET classes == Unique(labels)
           class_counts == [p \in DOMAIN classes |-> CountOf(labels, classes[p])]
           nc == IF classes = <<>> THEN <<>>
                 ELSE Tail(classes) \o <<Head(classes)>>
           nn == IF classes = <<>> THEN <<>>
                 ELSE Tail(class_counts) \o <<Head(class_counts)>>
           nd == Rows(nc, nn, labels)
           nt == Targets(nc, nn)
       IN  /\ num_per_cls_dict' = Zipped(nc, nn)
           /\ new_classes' = nc
           /\ IF nc = <<>>
              THEN \* np.vstack([]) raises ValueError
                   /\ d_pc' = "failed"
                   /\ d_err' = "ValueError"
                   /\ UNCHANGED <<data, labels, img_num_list>>
              ELSE /\ data' = nd
                   /\ labels' = nt
                   /\ img_num_list' = nn
                   /\ IF LengthsMatch(nd, nt)
                      THEN d_pc' = "get_img_num_per_cls" /\ d_err' = "none"
                      ELSE d_pc' = "failed" /\ d_err' = "AssertionError"
    /\ UNCHANGED <<idx_len, imb_type, imb_root, is_imbalance_data>>
    /\ UNCHANGED <<idxVars, critVars, trainVars>>

\* int(img_max * imb_factor ** (cls_idx / (cls_num - 1.0))), with
\* imb_factor = (a/b)^9 and cls_num = 10: floor(img_max * a^c / b^c).
ExpNum(root, cls_idx) ==
    (img_max * Pow(root[1], cls_idx)) \div Pow(root[2], cls_idx)

\* int(img_max * imb_factor)
StepNum(root) ==
    (img_max * Pow(root[1], cls_num - 1)) \div Pow(root[2], cls_num - 1)

get_img_num_per_cls(n, type, root) ==
    IF type = "exp"
    THEN [p \in 1 .. n |-> ExpNum(root, p - 1)]
    ELSE IF type = "step"
    THEN [p \in 1 .. (n \div 2) |-> img_max]
         \o [p \in 1 .. (n \div 2) |-> StepNum(root)]
    ELSE [p \in 1 .. n |-> img_max]

\* __init__, line 40 and the test of is_imbalance_data that follows it.
GetImgNum ==
    /\ d_pc = "get_img_num_per_cls"
    /\ img_num_list' = get_img_num_per_cls(cls_num, imb_type, imb_root)
    /\ d_pc' = IF is_imbalance_data THEN "gen_imbalanced_data" ELSE "done"
    /\ UNCHANGED <<d_err, data, labels, num_per_cls_dict, new_classes,
                   idx_len, imb_type, imb_root, is_imbalance_data>>
    /\ UNCHANGED <<idxVars, critVars, trainVars>>

gen_imbalanced_data ==
    /\ d_pc = "gen_imbalanced_data"
    /\ LET classes == Unique(labels)
           nd == Rows(classes, img_num_list, labels)
           nt == Targets(classes, img_num_list)
       IN  /\ num_per_cls_dict' = Zipped(classes, img_num_list)
           /\ idx_len' = [c \in DOMAIN Zipped(classes, img_num_list) |->
                            CountOf(labels, c)]
           /\ IF classes = <<>> \/ img_num_list = <<>>
              THEN \* np.vstack([]) raises ValueError
                   /\ d_pc' = "failed"
                   /\ d_err' = "ValueError"
                   /\ UNCHANGED <<data, labels>>
              ELSE /\ data' = nd
                   /\ labels' = nt
                   /\ IF LengthsMatch(nd, nt)
                      THEN d_pc' = "done" /\ d_err' = "none"
                      ELSE d_pc' = "failed" /\ d_err' = "AssertionError"
    /\ UNCHANGED <<img_num_list, new_classes, imb_type, imb_root,
                   is_imbalance_data>>
    /\ UNCHANGED <<idxVars, critVars, trainVars>>

\* ------------------------------------------------------------------------
\* get_imbalanced_data
\* ------------------------------------------------------------------------

IdleIdx ==
    /\ g_pc = "idle"
    /\ g_labels = <<>>
    /\ target_counts = <<>>
    /\ num_sample_per_class = <<>>
    /\ selected_list = <<>>

\* A test that lets a class with no budget left through once more.
BudgetNotNegative(n) == n >= 0

\* if num_sample_per_class[label] > 0
HasBudget(n) == n > 0

\* The for loop over range(0, length), from index i on. Python's index c is
\* position c + 1 of a TLA+ sequence.
RECURSIVE SelectLoop(_, _, _, _)
SelectLoop(i, lab, num, sel) ==
    IF i = Len(lab) THEN [selected |-> sel, num |-> num]
    ELSE LET label == lab[i + 1]
         IN  IF HasBudget(num[label + 1])
             THEN SelectLoop(i + 1, lab,
                             [num EXCEPT ![label + 1] = @ - 1],
                             Append(sel, i))
             ELSE SelectLoop(i + 1, lab, num, sel)

\* num_sample_per_class = list(num_sample_per_class): the loop decrements a
\* copy, so the caller's list is afterwards what it was before the call.
CallerListAfter(callers, locals) == callers

get_imbalanced_data ==
    /\ g_pc = "call"
    /\ LET r == SelectLoop(0, g_labels, target_counts, <<>>)
       IN  /\ selected_list' = r.selected
           /\ num_sample_per_class' = r.num
           /\ target_counts' = CallerListAfter(target_counts, r.num)
    /\ g_pc' = "done"
    /\ UNCHANGED g_labels
    /\ UNCHANGED <<dataVars, critVars, trainVars>>

InitIdx ==
    /\ g_pc = "call"
    /\ \E k \in 1 .. MaxTargets :
          /\ target_counts \in [1 .. k -> 0 .. MaxCount]
          /\ \E n \in 0 .. MaxLen : g_labels \in [1 .. n -> 0 .. k - 1]
    /\ num_sample_per_class = <<>>
    /\ selected_list = <<>>

\* ------------------------------------------------------------------------
\* get_criterion: numbers
\* ------------------------------------------------------------------------

\* A float is held exactly: a reduced fraction num/den with den > 0, or one
\* of the two non-finite values numpy produces, inf and nan. (The rounding
\* of float64 and of torch.FloatTensor is not modelled; the values that
\* decide the properties below, 0, 1, inf and nan, are exact in both.)
RECURSIVE GCD(_, _)
GCD(a, b) == IF b = 0 THEN a ELSE GCD(b, a % b)

Frac(n, d) == LET g == GCD(n, d)
              IN  [k |-> "fin", num |-> n \div g, den |-> d \div g]

Inf == [k |-> "inf"]

NaN == [k |-> "nan"]

One == Frac(1, 1)

IsFinite(x) == x.k = "fin"

\* 1.0 - x, for a finite x
OneMinus(x) == Frac(x.den - x.num, x.den)

\* np.power(b, n) for a fraction b and an integer n >= 0 (0 ** 0 is 1)
FPow(b, n) == Frac(Pow(b.num, n), Pow(b.den, n))

\* x / y as numpy divides floats: a positive number over zero is inf (numpy
\* warns, it does not raise), inf over inf is nan, a finite number over inf
\* is zero.
FDiv(x, y) ==
    IF x.k = "nan" \/ y.k = "nan" THEN NaN
    ELSE IF x.k = "inf" THEN (IF y.k = "inf" THEN NaN ELSE Inf)
    ELSE IF y.k = "inf" THEN Frac(0, 1)
    ELSE IF y.num = 0 THEN (IF x.num = 0 THEN NaN ELSE Inf)
    ELSE Frac(x.num * y.den, x.den * y.num)

FAdd(x, y) ==
    IF x.k = "nan" \/ y.k = "nan" THEN NaN
    ELSE IF x.k = "inf" \/ y.k = "inf" THEN Inf
    ELSE Frac(x.num * y.den + y.num * x.den, x.den * y.den)

\* x * n for an integer n > 0
FScale(x, n) == IF x.k = "fin" THEN Frac(x.num * n, x.den) ELSE x

\* np.sum
RECURSIVE FSum(_)
FSum(w) == IF w = <<>> THEN Frac(0, 1) ELSE FAdd(Head(w), FSum(Tail(w)))

\* ------------------------------------------------------------------------
\* get_criterion
\* ------------------------------------------------------------------------

NoCriterion == [loss |-> "None", weight |-> <<>>]

\* A criterion left from an earlier call.
StaleCriterion == [loss |-> "stale", weight |-> <<>>]

IdleCrit ==
    /\ trainer = "ERM"
    /\ strategy = "ERM"
    /\ cfg_epochs = 0
    /\ epoch = 0
    /\ cls_num_list = <<>>
    /\ criterion = [loss |-> "None", weight |-> <<>>]
    /\ c_idx = -1
    /\ c_pc = "idle"
    /\ c_err = "none"

InitCrit ==
    /\ trainer \in Trainers
    /\ strategy \in Trainers
    /\ cfg_epochs \in EpochsChoices
    /\ epoch \in 0 .. cfg_epochs - 1
    /\ cls_num_list \in [1 .. LenCls -> ClsCountChoices]
    /\ criterion \in {NoCriterion, StaleCriterion}
    /\ c_idx = -1
    /\ c_pc = "call"
    /\ c_err = "none"

\* idx = epoch // 250 if cfg.epochs == 300 else epoch // 160
ScheduleIdx(epochs, e) == IF epochs = 300 THEN e \div 250 ELSE e \div 160

\* betas = [0, 0.9999]
betas == <<Frac(0, 1), Frac(9999, 10000)>>

\* effective_num, per_cls_weights and their normalisation, for beta
PerClsWeights(beta, cls) ==
    LET effective_num == [c \in DOMAIN cls |-> OneMinus(FPow(beta, cls[c]))]
        w == [c \in DOMAIN cls |-> FDiv(OneMinus(beta), effective_num[c])]
        total == FSum(w)
    IN  [c \in DOMAIN cls |-> FScale(FDiv(w[c], total), Len(cls))]

Raise(err) ==
    /\ c_pc' = "raised"
    /\ c_err' = err
    /\ criterion' = criterion

Install(loss, w) ==
    /\ c_pc' = "returned"
    /\ c_err' = "none"
    /\ criterion' = [loss |-> loss, weight |-> w]

\* A variant that falls back to a default loss for an unknown strategy.
ERM_get_criterion_default ==
    /\ c_pc = "call"
    /\ trainer = "ERM"
    /\ Install("CrossEntropyLoss", <<>>)
    /\ UNCHANGED <<trainer, strategy, cfg_epochs, epoch, cls_num_list, c_idx>>
    /\ UNCHANGED <<dataVars, idxVars, trainVars>>

ERM_get_criterion ==
    /\ c_pc = "call"
    /\ trainer = "ERM"
    /\ IF strategy = "ERM"
       THEN Install("CrossEntropyLoss", <<>>)
       ELSE Raise("ValueError: Strategy is not supported")
    /\ UNCHANGED <<trainer, strategy, cfg_epochs, epoch, cls_num_list, c_idx>>
    /\ UNCHANGED <<dataVars, idxVars, trainVars>>

\* The body shared, line for line, by LDAMDRWTrainer and MixupTrainer.
DRW_get_criterion(name, loss) ==
    /\ c_pc = "call"
    /\ trainer = name
    /\ IF strategy = name
       THEN LET idx == ScheduleIdx(cfg_epochs, epoch)
            IN  /\ c_idx' = idx
                /\ IF idx + 1 \in DOMAIN betas
                   THEN Install(loss, PerClsWeights(betas[idx + 1], cls_num_list))
                   ELSE Raise("IndexError")
       ELSE /\ c_idx' = c_idx
            /\ Raise("ValueError: Strategy is not supported")
    /\ UNCHANGED <<trainer, strategy, cfg_epochs, epoch, cls_num_list>>
    /\ UNCHANGED <<dataVars, idxVars, trainVars>>

LDAM_get_criterion == DRW_get_criterion("LDAM_DRW", "LDAMLoss")

Mixup_get_criterion == DRW_get_criterion("Mixup_DRW", "CrossEntropyLoss")

\* ------------------------------------------------------------------------
\* train_one_epoch
\* ------------------------------------------------------------------------
\* The loop is single-threaded; each action below is one step of it, in the
\* order of the code. The text log and wandb are outside the program: a call
\* to either may raise, and train_one_epoch holds no try/except.

IdleTrain ==
    /\ t_pc = "idle"
    /\ t_err = "none"
    /\ n_batches = 0
    /\ print_freq = 1
    /\ batch_i = 0
    /\ meter_n = 0
    /\ log_training = <<>>
    /\ log_flushed = 0
    /\ wandb_log = <<>>
    /\ trace = <<>>

InitTrain ==
    /\ t_pc = "begin"
    /\ t_err = "none"
    /\ n_batches \in 0 .. MaxBatches
    /\ print_freq \in 1 .. MaxPrintFreq
    /\ batch_i = 0
    /\ meter_n = 0
    /\ log_training = <<>>
    /\ log_flushed = 0
    /\ wandb_log = <<>>
    /\ trace = <<>>

Step(from, to, ev) ==
    /\ t_pc = from
    /\ t_pc' = to
    /\ trace' = Append(trace, [ev |-> ev, i |-> batch_i])

\* The AverageMeters and the two lists are created, model.train().
Begin ==
    /\ t_pc = "begin"
    /\ t_pc' = "fetch"
    /\ batch_i' = 0
    /\ UNCHANGED <<t_err, n_batches, print_freq, meter_n, log_training,
                   log_flushed, wandb_log, trace>>
    /\ UNCHANGED <<dataVars, idxVars, critVars>>

\* for i, (_input, target) in enumerate(self.train_loader)
Fetch ==
    /\ t_pc = "fetch"
    /\ IF batch_i < n_batches
       THEN t_pc' = "forward"
       ELSE t_pc' = IF trainer = "Mixup_DRW" THEN "epoch_log" ELSE "record"
    /\ UNCHANGED <<t_err, n_batches, print_freq, batch_i, meter_n, log_training,
                   log_flushed, wandb_log, trace>>
    /\ UNCHANGED <<dataVars, idxVars, critVars>>

\* out, _ = self.model(_input); MixupTrainer mixes the batch first and runs
\* the model on the plain and on the mixed input.
Forward ==
    /\ Step("forward", "loss", "forward")
    /\ UNCHANGED <<t_err, n_batches, print_freq, batch_i, meter_n, log_training,
                   log_flushed, wandb_log>>
    /\ UNCHANGED <<dataVars, idxVars, critVars>>

\* loss = self.criterion(out, target).mean() / mixup_criterion(...).mean()
LossCompute ==
    /\ Step("loss", "metrics", "loss")
    /\ UNCHANGED <<t_err, n_batches, print_freq, batch_i, meter_n, log_training,
                   log_flushed, wandb_log>>
    /\ UNCHANGED <<dataVars, idxVars, critVars>>

\* accuracy, all_preds / all_targets extended, losses / top1 / top5 updated
MetricsUpdate ==
    /\ Step("metrics", "backward", "metrics")
    /\ meter_n' = meter_n + 1
    /\ UNCHANGED <<t_err, n_batches, print_freq, batch_i, log_training,
                   log_flushed, wandb_log>>
    /\ UNCHANGED <<dataVars, idxVars, critVars>>

\* A loop that goes from backward straight to the report, without
\* self.optimizer.step().
BackwardWithoutStep ==
    /\ Step("backward", "report", "backward")
    /\ UNCHANGED <<t_err, n_batches, print_freq, batch_i, meter_n, log_training,
                   log_flushed, wandb_log>>
    /\ UNCHANGED <<dataVars, idxVars, critVars>>

\* self.optimizer.zero_grad(); loss.backward()
Backward ==
    /\ Step("backward", "step", "backward")
    /\ UNCHANGED <<t_err, n_batches, print_freq, batch_i, meter_n, log_training,
                   log_flushed, wandb_log>>
    /\ UNCHANGED <<dataVars, idxVars, critVars>>

\* self.optimizer.step()
OptimizerStep ==
    /\ Step("step", "report", "optimizer_step")
    /\ UNCHANGED <<t_err, n_batches, print_freq, batch_i, meter_n, log_training,
                   log_flushed, wandb_log>>
    /\ UNCHANGED <<dataVars, idxVars, critVars>>

Abort(err) ==
    /\ t_pc' = "aborted"
    /\ t_err' = err
    /\ batch_i' = batch_i

NextBatch ==
    /\ t_pc' = "fetch"
    /\ t_err' = t_err
    /\ batch_i' = batch_i + 1

\* Whether the trainer calls wandb.log inside the periodic report.
SinkInReport(tr) == tr = "ERM"

\* if i % self.cfg.print_freq == 0: write, flush (and, in ERMTrainer,
\* wandb.log). Each of the calls returns or raises.
Report ==
    /\ t_pc = "report"
    /\ IF batch_i % print_freq = 0
       THEN \/ \* log_training.write raises
               /\ Abort("log_write")
               /\ UNCHANGED <<log_training, log_flushed, wandb_log>>
            \/ \* log_training.flush raises
               /\ Abort("log_flush")
               /\ log_training' = Append(log_training, batch_i)
               /\ UNCHANGED <<log_flushed, wandb_log>>
            \/ \* wandb.log raises
               /\ SinkInReport(trainer)
               /\ Abort("wandb")
               /\ log_training' = Append(log_training, batch_i)
               /\ log_flushed' = Len(log_training) + 1
               /\ UNCHANGED wandb_log
            \/ \* every call returns
               /\ NextBatch
               /\ log_training' = Append(log_training, batch_i)
               /\ log_flushed' = Len(log_training) + 1
               /\ wandb_log' = IF SinkInReport(trainer)
                               THEN Append(wandb_log, [at |-> "batch", i |-> batch_i])
                               ELSE wandb_log
       ELSE /\ NextBatch
            /\ UNCHANGED <<log_training, log_flushed, wandb_log>>
    /\ UNCHANGED <<n_batches, print_freq, meter_n, trace>>
    /\ UNCHANGED <<dataVars, idxVars, critVars>>

\* MixupTrainer: wandb.log after the loop, once per epoch.
EpochLog ==
    /\ t_pc = "epoch_log"
    /\ \/ /\ t_pc' = "aborted"
          /\ t_err' = "wandb"
          /\ UNCHANGED wandb_log
       \/ /\ t_pc' = "record"
          /\ t_err' = t_err
          /\ wandb_log' = Append(wandb_log, [at |-> "epoch_end", i |-> batch_i])
    /\ UNCHANGED <<n_batches, print_freq, batch_i, meter_n, log_training,
                   log_flushed, trace>>
    /\ UNCHANGED <<dataVars, idxVars, critVars>>

\* self.compute_metrics_and_record(...)
ComputeMetricsAndRecord ==
    /\ Step("record", "done", "compute_metrics_and_record")
    /\ UNCHANGED <<t_err, n_batches, print_freq, batch_i, meter_n, log_training,
                   log_flushed, wandb_log>>
    /\ UNCHANGED <<dataVars, idxVars, critVars>>

\* ------------------------------------------------------------------------
\* Specifications
\* ------------------------------------------------------------------------

\* trainer also names the object train_one_epoch runs on.
IdleCritOf(tr) ==
    /\ trainer = tr
    /\ strategy = tr
    /\ cfg_epochs = 0
    /\ epoch = 0
    /\ cls_num_list = <<>>
    /\ criterion = NoCriterion
    /\ c_idx = -1
    /\ c_pc = "idle"
    /\ c_err = "none"

NextData == change_order_class \/ GetImgNum \/ gen_imbalanced_data

StartData == InitData /\ IdleIdx /\ IdleCrit /\ IdleTrain

SpecData == StartData /\ [][NextData]_vars

NextIdx == get_imbalanced_data

StartIdx == InitIdx /\ IdleData /\ IdleCrit /\ IdleTrain

SpecIdx == StartIdx /\ [][NextIdx]_vars

NextCrit == ERM_get_criterion \/ LDAM_get_criterion \/ Mixup_get_criterion

StartCrit == InitCrit /\ IdleData /\ IdleIdx /\ IdleTrain

SpecCrit == StartCrit /\ [][NextCrit]_vars

NextTrain ==
    \/ Begin
    \/ Fetch
    \/ Forward
    \/ LossCompute
    \/ MetricsUpdate
    \/ Backward
    \/ OptimizerStep
    \/ Report
    \/ EpochLog
    \/ ComputeMetricsAndRecord

StartTrain ==
    InitTrain /\ IdleData /\ IdleIdx /\ (\E tr \in Trainers : IdleCritOf(tr))

SpecTrain == StartTrain /\ [][NextTrain]_vars

\* ------------------------------------------------------------------------
\* Properties of the dataset builder
\* ------------------------------------------------------------------------

RECURSIVE SumOver(_, _)
SumOver(f, S) ==
    IF S = {} THEN 0
    ELSE LET c == CHOOSE x \in S : TRUE IN f[c] + SumOver(f, S \ {c})

DictSum == SumOver(num_per_cls_dict, DOMAIN num_per_cls_dict)

\* C1: once construction has completed, sum(num_per_cls_dict.values()) ==
\* len(labels) == data.shape[0], whatever imb_type, is_imbalance_data, the
\* per-class available counts and the per-class targets were.
C1_SumsAgree ==
    d_pc = "done" =>
        /\ DictSum = RunLen(labels)
        /\ RunLen(labels) = RunLen(data)

\* Construction with is_imbalance_data=True completed and really cut a class
\* down to its target.
C1_Witness ==
    /\ d_pc = "done"
    /\ is_imbalance_data
    /\ \E c \in DOMAIN num_per_cls_dict :
          /\ num_per_cls_dict[c] > 0
          /\ num_per_cls_dict[c] < idx_len[c]

\* C2: after construction with is_imbalance_data=True, the class at position
\* p of the rotated order (classes[1:] then classes[0]) holds the p-th count
\* of img_num_list, so class 0 holds the tail count.
C2_CountsFollowRotatedOrder ==
    (d_pc = "done" /\ is_imbalance_data) =>
        \A p \in DOMAIN new_classes :
            /\ new_classes[p] \in DOMAIN num_per_cls_dict
            /\ num_per_cls_dict[new_classes[p]] = img_num_list[p]

\* gen_imbalanced_data has run.
GenActed == is_imbalance_data /\ d_pc \in {"done", "failed"} /\ idx_len # <<>>

\* C7: when a class's target exceeds its available samples,
\* gen_imbalanced_data either keeps exactly the available samples of that
\* class (rows, labels and num_per_cls_dict all equal to the available
\* count) or fails with an explicit insufficient-samples error; it never
\* completes with a label count or dict entry that differs from the rows.
C7_CapOrInsufficientSamplesError ==
    GenActed =>
        \A c \in DOMAIN idx_len :
            img_num_list[PosOf(SortedSeq(DOMAIN idx_len), c)] > idx_len[c] =>
                /\ \/ /\ d_pc = "done"
                      /\ CountOf(data, c) = idx_len[c]
                      /\ CountOf(labels, c) = idx_len[c]
                      /\ num_per_cls_dict[c] = idx_len[c]
                   \/ /\ d_pc = "failed"
                      /\ d_err = "InsufficientSamplesError"
                /\ CountOf(data, c) <= idx_len[c]
                /\ d_pc = "done" =>
                      /\ CountOf(labels, c) = CountOf(data, c)
                      /\ num_per_cls_dict[c] = CountOf(data, c)

\* ------------------------------------------------------------------------
\* Properties of get_imbalanced_data
\* ------------------------------------------------------------------------

Range(seq) == {seq[k] : k \in DOMAIN seq}

\* How many indices j < i carry the label of index i.
EarlierSame(i) ==
    Cardinality({j \in 0 .. i - 1 : g_labels[j + 1] = g_labels[i + 1]})

\* C3: the returned indices are strictly increasing; index i is returned
\* exactly when fewer than T[L[i]] earlier indices carry its label; class c
\* contributes min(T[c], its number of samples) indices; the caller's
\* target_counts is as it was (it still is the remaining budget plus what
\* the class contributed).
C3_SelectsFirstTPerClass ==
    g_pc = "done" =>
        /\ \A a, b \in DOMAIN selected_list :
              a < b => selected_list[a] < selected_list[b]
        /\ \A i \in 0 .. Len(g_labels) - 1 :
              (i \in Range(selected_list))
                  <=> (EarlierSame(i) < target_counts[g_labels[i + 1] + 1])
        /\ \A c \in 0 .. Len(target_counts) - 1 :
              /\ Cardinality({i \in Range(selected_list) : g_labels[i + 1] = c})
                    = Min(target_counts[c + 1],
                          Cardinality({i \in 0 .. Len(g_labels) - 1 :
                                          g_labels[i + 1] = c}))
              /\ num_sample_per_class[c + 1] >= 0
              /\ target_counts[c + 1]
                    = num_sample_per_class[c + 1]
                      + Cardinality({i \in Range(selected_list) :
                                        g_labels[i + 1] = c})
        /\ Range(selected_list) \subseteq 0 .. Len(g_labels) - 1

\* The scenario T = [2,1], L = [0,0,1,0], result [0,1,2].
C3_Witness ==
    /\ g_pc = "done"
    /\ g_labels = <<0, 0, 1, 0>>
    /\ target_counts = <<2, 1>>
    /\ selected_list = <<0, 1, 2>>

\* ------------------------------------------------------------------------
\* Properties of get_criterion
\* ------------------------------------------------------------------------

DRWTrainers == {"LDAM_DRW", "Mixup_DRW"}

\* get_criterion of a DRW trainer got as far as computing idx.
IdxComputed == trainer \in DRWTrainers /\ c_pc # "call" /\ c_idx # -1

\* C4: in get_criterion of LDAMDRWTrainer and MixupTrainer idx is 0 or 1
\* whenever it selects beta, for every cfg.epochs and every epoch below it:
\* betas[idx] is never out of range.
C4_IdxInRange ==
    IdxComputed => (c_idx \in {0, 1} /\ c_err # "IndexError")

OnesVector == [c \in DOMAIN cls_num_list |-> One]

\* C5: before the breakpoint (idx == 0) the installed weight vector is the
\* vector of ones of length len(cls_num_list), for every cls_num_list.
C5_UniformBeforeBreakpoint ==
    (IdxComputed /\ c_idx = 0) =>
        /\ c_pc = "returned"
        /\ criterion.weight = OnesVector
        /\ FSum(criterion.weight) = Frac(Len(cls_num_list), 1)

\* C6: with a strategy name that is not the trainer's own, get_criterion
\* raises the unsupported-strategy error and leaves self.criterion as it was.
C6_RejectsOtherStrategy ==
    [][(c_pc = "call" /\ strategy # trainer) =>
          /\ c_pc' = "raised"
          /\ c_err' = "ValueError: Strategy is not supported"
          /\ criterion' = criterion]_vars

\* A trainer holding a criterion was asked for a strategy it does not
\* implement.
C6_Witness ==
    /\ c_pc = "raised"
    /\ strategy # trainer
    /\ criterion = StaleCriterion
    /\ c_err = "ValueError: Strategy is not supported"

HasZeroCount == \E c \in DOMAIN cls_num_list : cls_num_list[c] = 0

\* C8: with a zero in cls_num_list, get_criterion of the DRW trainers raises
\* an invalid-class-count / division-by-zero error before computing weights,
\* before and after the breakpoint, and never installs a criterion whose
\* weights hold inf or nan.
C8_ZeroCountRejected ==
    (IdxComputed /\ c_idx \in {0, 1} /\ HasZeroCount) =>
        /\ c_pc = "raised"
        /\ c_err \in {"InvalidClassCount", "ZeroDivisionError"}
        /\ \A c \in DOMAIN criterion.weight : IsFinite(criterion.weight[c])

\* ------------------------------------------------------------------------
\* Properties of train_one_epoch
\* ------------------------------------------------------------------------

SinkErrors == {"log_write", "log_flush", "wandb"}

\* C9: a failure of wandb.log or of the text log's write / flush during
\* train_one_epoch is caught: it never ends the epoch.
C9_SinkFailureNonFatal ==
    ~(t_pc = "aborted" /\ t_err \in SinkErrors)

\* The batch indices whose report step is over.
Reported ==
    {j \in 0 .. n_batches - 1 :
        j < batch_i \/ (j = batch_i /\ t_pc \in {"epoch_log", "record", "done"})}

Times(seq, x) == Cardinality({k \in DOMAIN seq : seq[k] = x})

\* C10: in each trainer, a batch index i with i % print_freq == 0 gets one
\* report, written and flushed to the text log and sent to wandb; any other
\* batch index gets neither.
C10_ReportToLogAndSink ==
    (t_pc # "idle" /\ t_err = "none") =>
        \A j \in Reported :
            IF j % print_freq = 0
            THEN /\ Times(log_training, j) = 1
                 /\ log_flushed = Len(log_training)
                 /\ Times(wandb_log, [at |-> "batch", i |-> j]) = 1
            ELSE /\ Times(log_training, j) = 0
                 /\ Times(wandb_log, [at |-> "batch", i |-> j]) = 0

\* The steps of batches b .. n-1 in the given per-batch order, then
\* compute_metrics_and_record.
RECURSIVE EpochSteps(_, _, _)
EpochSteps(order, b, n) ==
    IF b >= n THEN <<[ev |-> "compute_metrics_and_record", i |-> n]>>
    ELSE [k \in DOMAIN order |-> [ev |-> order[k], i |-> b]]
         \o EpochSteps(order, b + 1, n)

IsPrefix(s, t) == Len(s) <= Len(t) /\ s = SubSeq(t, 1, Len(s))

\* What an epoch does when it follows the per-batch order: every step taken
\* so far is the next one of that order, the accumulators were updated once
\* per metrics step, and a completed epoch has taken them all.
FollowsOrder(order) ==
    LET all == EpochSteps(order, 0, n_batches)
    IN  /\ IsPrefix(trace, all)
        /\ meter_n = Times([k \in DOMAIN trace |-> trace[k].ev], "metrics")
        /\ t_pc = "done" => trace = all

ClaimedOrder == <<"forward", "loss", "backward", "optimizer_step", "metrics">>

CodeOrder == <<"forward", "loss", "metrics", "backward", "optimizer_step">>

\* C11 as stated: each batch goes forward, loss, backward, optimizer step,
\* metrics update (the accumulators change only after that batch's optimizer
\* step); batch i's optimizer step precedes batch i+1's forward pass;
\* compute_metrics_and_record happens once, after the last batch.
C11_MetricsAfterOptimizerStep ==
    t_pc # "idle" => FollowsOrder(ClaimedOrder)

\* C11 as amended: each batch goes forward, loss, metrics update, backward,
\* optimizer step (the accumulators are updated before that batch's
\* backward pass); batch i's optimizer step precedes batch i+1's forward
\* pass; compute_metrics_and_record happens only after the last batch's
\* optimizer step, at most once, and exactly once in an epoch that
\* completes.
C11_MetricsBeforeBackward ==
    t_pc # "idle" => FollowsOrder(CodeOrder)

\* An epoch of at least two batches has completed.
C11_Witness ==
    /\ t_pc = "done"
    /\ n_batches >= 2
    /\ meter_n = n_batches
    /\ trace[Len(trace)].ev = "compute_metrics_and_record"

====
